---- MODULE Spec2Model ----
(***************************************************************************)
(* A model of the TalkToDBAgent server core: the guardrail validator, the  *)
(* schema catalog (introspection result, LLM normalization, snapshot       *)
(* store), the SQL generator, the query executor, the history write and    *)
(* the orchestrating routes.                                               *)
(*                                                                         *)
(* Text (a Python str) is a sequence of lexemes.  A lexeme is an atomic    *)
(* run of characters: a word such as "select" or "DELETE", one blank, one  *)
(* tab, one ';', one '('.  Python's substring and prefix tests become      *)
(* tests on contiguous sub-sequences; no lexeme of the alphabets below is  *)
(* a proper part of a string the code searches for, so the lexeme-level    *)
(* tests agree with the character-level ones.                              *)
(***************************************************************************)
EXTENDS Integers, Sequences, FiniteSets, TLC

VARIABLES
    gSql,       \* guardrail: the statement text handed to validate_sql
    gRes,       \* guardrail: the SQLValidationResult returned, or NoResult
    nDialect,   \* catalog: conn.dialect.name of the target database
    nRaw,       \* catalog: what _introspect_schema returns for the target database
    nReply,     \* catalog: the content of the model's reply to the normalization prompt
    nOut,       \* catalog: outcome of discover_and_save (returned value or raised), or NoResult
    nStored,    \* catalog: schema_json of the connection's snapshot row, or NoResult
    xCall,      \* executor: the arguments of one call of execute_sql
    xEnv,       \* executor: how the target database behaves during that call
    xOut,       \* executor: outcome of the call (returned response or raised), or NoResult
    xDuration,  \* executor: seconds the target database needs to run the statement
    xElapsed,   \* executor: seconds the call took, once it is over
    xHeld,      \* executor: connections to the target database the call holds
    oSettings,  \* routes: the Settings object read at startup
    oReq,       \* routes: the request received
    oEnv,       \* routes: how the target database behaves while the request is handled
    oValidation,\* routes: the guardrail decision obtained for the request, or NoResult
    oExecCall,  \* routes: the arguments the route passed to execute_sql, or NoResult
    oExecOut,   \* routes: what execute_sql returned or raised, or NoResult
    oResp,      \* routes: the HTTP response, or NoResult while the request is pending
    oTasks,     \* routes: the background tasks queued and not yet run, in order
    oCalls,     \* routes: the service calls made for the request and the "response" mark, in order
    oHistory,   \* routes: the rows of table query_history
    oLogEnv,    \* routes: how the application database behaves during a history write
    sRows,      \* store: the rows of table schema_snapshots, in insertion order
    sPc,        \* store: per server process, where its discover request stands
    sConn,      \* store: per server process, the connection id of its request
    sValue,     \* store: per server process, the normalized structure it is saving
    sFound,     \* store: per server process, the row its query returned (0: None)
    sStarted,   \* store: discover/refresh requests received so far
    sGet,       \* store: outcome of the last getSchema, or NoResult
    sLast,      \* store: per connection id, what its latest completed discover returned (0: none)
    sFailed,    \* store: the last discover/refresh request that failed, or NoResult
    qReply,     \* generator: the content of the model's reply to the generation prompt
    qFails,     \* generator: the model call raises (no client, or the completion fails)
    qDialect,   \* generator: the dialect of the database behind the request's connection_id
    qOut,       \* generator: outcome of generate_sql (returned value or raised), or NoResult
    hRows,      \* history: the rows of table query_history (id, pinned, created_at)
    hNow,       \* history: the latest value datetime.utcnow has given
    hInserted,  \* history: history writes committed so far
    hList       \* history: outcome of the last list_history, or NoResult

guardVars == <<gSql, gRes>>
normVars == <<nDialect, nRaw, nReply, nOut, nStored>>
execVars == <<xCall, xEnv, xOut, xDuration, xElapsed, xHeld>>
routeVars == <<oSettings, oReq, oEnv, oValidation, oExecCall, oExecOut, oResp, oTasks,
               oCalls, oHistory, oLogEnv>>
storeVars == <<sRows, sPc, sConn, sValue, sFound, sStarted, sGet, sLast, sFailed>>
genVars == <<qReply, qFails, qDialect, qOut>>
histVars == <<hRows, hNow, hInserted, hList>>
vars == <<gSql, gRes, nDialect, nRaw, nReply, nOut, nStored, xCall, xEnv, xOut, xDuration, xElapsed,
          xHeld, oSettings, oReq, oEnv, oValidation, oExecCall, oExecOut, oResp, oTasks,
          oCalls, oHistory, oLogEnv,
          sRows, sPc, sConn, sValue, sFound, sStarted, sGet, sLast, sFailed,
          qReply, qFails, qDialect, qOut,
          hRows, hNow, hInserted, hList>>

NoResult == [none |-> TRUE]

(***************************************************************************)
(* Bounds of the model.                                                    *)
(***************************************************************************)
MaxSqlLen == 4
MaxTables == 2
MaxColumns == 1
MaxResultRows == 3
MaxRowCap == 2
NumProcesses == 2
MaxDiscovers == 3
MaxReplyChunks == 4
MaxTimeout == 2
MaxDuration == 3
MaxHistory == 3
MaxClock == 2
MaxLimit == 2

(***************************************************************************)
(* Text helpers (Python str methods at lexeme level).                      *)
(***************************************************************************)
Whitespace == {" ", "\t"}

\* Lexemes of statement texts.  "x" is an identifier; "select" and "drop"
\* are lower-case spellings that str.upper() changes.
SqlLexemes == {"select", "DELETE", "drop", "x", " ", "\t", "(", ";"}

\* Lexemes made of letters only: two adjacent ones form one word.
LetterLexemes == {"select", "SELECT", "DELETE", "drop", "DROP", "x", "X",
                  "where", "WHERE", "ILIKE", "abc", "Abc"}
DigitLexemes == {"1"}
\* Lexemes made of word characters (regex \w) only
WordLexemes == LetterLexemes \cup DigitLexemes

Range(s) == {s[i] : i \in 1..Len(s)}

TextsUpTo(alphabet, n) == UNION {[1..k -> alphabet] : k \in 0..n}

\* str.upper() of one lexeme
UpperLexeme(l) ==
    CASE l = "select" -> "SELECT"
      [] l = "drop"   -> "DROP"
      [] l = "x"      -> "X"
      [] l = "where"  -> "WHERE"
      [] l = "abc"    -> "ABC"
      [] l = "Abc"    -> "ABC"
      [] OTHER        -> l

\* str.lower() of one lexeme
LowerLexeme(l) ==
    CASE l = "SELECT" -> "select"
      [] l = "DELETE" -> "delete"
      [] l = "DROP"   -> "drop"
      [] l = "X"      -> "x"
      [] l = "WHERE"  -> "where"
      [] l = "ILIKE"  -> "ilike"
      [] l = "Abc"    -> "abc"
      [] OTHER        -> l

\* str.upper()
Upper(s) == [i \in 1..Len(s) |-> UpperLexeme(s[i])]

RECURSIVE LStrip(_, _)
\* str.lstrip(chars): drop every leading lexeme that is in chars
LStrip(s, chars) ==
    IF s # <<>> /\ Head(s) \in chars THEN LStrip(Tail(s), chars) ELSE s

RECURSIVE RStrip(_, _)
\* str.rstrip(chars): drop EVERY trailing lexeme that is in chars
RStrip(s, chars) ==
    IF s # <<>> /\ s[Len(s)] \in chars
    THEN RStrip(SubSeq(s, 1, Len(s) - 1), chars)
    ELSE s

\* str.strip(): leading and trailing whitespace removed
Strip(s) == RStrip(LStrip(s, Whitespace), Whitespace)

\* str.startswith(prefix)
StartsWith(s, prefix) ==
    /\ Len(s) >= Len(prefix)
    /\ SubSeq(s, 1, Len(prefix)) = prefix

\* sub in s
Contains(s, sub) ==
    \E i \in 1..(Len(s) - Len(sub) + 1) : SubSeq(s, i, i + Len(sub) - 1) = sub

(***************************************************************************)
(* SQLGuardrailsService.validate_sql                                       *)
(***************************************************************************)
\* The eleven entries of dangerous_keywords, in list order: each is the
\* keyword followed by ONE BLANK.
dangerous_keywords ==
    << <<"DROP", " ">>, <<"TRUNCATE", " ">>, <<"ALTER", " ">>,
       <<"DELETE", " ">>, <<"UPDATE", " ">>, <<"INSERT", " ">>,
       <<"MERGE", " ">>, <<"CREATE", " ">>, <<"REPLACE", " ">>,
       <<"GRANT", " ">>, <<"REVOKE", " ">> >>

MultiStatementWarning == "Multiple SQL statements detected; only single SELECT allowed"

RECURSIVE KeywordWarnings(_, _)
\* the loop over dangerous_keywords: one warning, kw.strip(), per entry found
KeywordWarnings(sql_upper, k) ==
    IF k > Len(dangerous_keywords) THEN <<>>
    ELSE (IF Contains(sql_upper, dangerous_keywords[k])
          THEN <<Strip(dangerous_keywords[k])[1]>>
          ELSE <<>>) \o KeywordWarnings(sql_upper, k + 1)

validate_sql(sql) ==
    LET sql_upper  == Upper(Strip(sql))
        kwWarnings == IF ~StartsWith(sql_upper, <<"SELECT">>)
                      THEN KeywordWarnings(sql_upper, 1)
                      ELSE <<>>
        multi      == Contains(RStrip(Strip(sql_upper), {";"}), <<";">>)
        warnings   == kwWarnings \o (IF multi THEN <<MultiStatementWarning>> ELSE <<>>)
        block      == kwWarnings # <<>> \/ multi
    IN  [is_safe |-> ~block, warnings |-> warnings, block_execution |-> block]

(***************************************************************************)
(* SQLExecutorService.execute_sql                                          *)
(*                                                                         *)
(* The target database is the environment of a call: whether the statement *)
(* returns rows and how many, and whether and where the call fails.  Row k *)
(* of the result set is the number k; execution_time_ms is not modelled.   *)
(***************************************************************************)
None == "<None>"
ConnectionIds == {1, 2}
\* ids with a DbConnection row (id 2 has none)
StoredConnections == {1}

\* Exception classes: except SQLAlchemyError catches the first (and its
\* subclasses); "Exception" is any other class, e.g. the ModuleNotFoundError of
\* create_engine for a driver that is not installed, or an error of a result
\* processor while a row is fetched.
ExceptionClasses == {"SQLAlchemyError", "Exception"}

\* where the call fails: not at all, in create_engine, in engine.connect(),
\* in conn.execute, or when the loop asks for row fail_row
FailStages == {"none", "create_engine", "connect", "execute", "fetch"}

Environments ==
    {e \in [returns_rows : BOOLEAN, nrows : 0..MaxResultRows, fail : FailStages,
            fail_row : 0..(MaxResultRows + 1), exc : ExceptionClasses] :
        /\ (~e.returns_rows => e.nrows = 0)
        /\ (e.fail = "fetch" => e.returns_rows /\ e.fail_row \in 1..(e.nrows + 1))
        /\ (e.fail # "fetch" => e.fail_row = 0)
        /\ (e.fail = "none" => e.exc = "SQLAlchemyError")}

Raised(cls) == [raised |-> TRUE, exc |-> cls]
Returned(v) == [raised |-> FALSE, value |-> v]

\* _get_connection_string: ValueError when the id has no DbConnection row
get_connection_string(connection_id) ==
    IF connection_id \in StoredConnections
    THEN Returned("conn_str")
    ELSE Raised("ValueError")

RECURSIVE FetchLoop(_, _, _, _, _)
\* for row in result: rows.append(..); count += 1; if count >= max_rows: break
\* k is the row the iterator is asked for next
FetchLoop(rows, count, k, max_rows, env) ==
    IF env.fail = "fetch" /\ env.fail_row = k THEN [ok |-> FALSE, rows |-> rows]
    ELSE IF k > env.nrows THEN [ok |-> TRUE, rows |-> rows]
    ELSE IF count + 1 >= max_rows THEN [ok |-> TRUE, rows |-> Append(rows, k)]
    ELSE FetchLoop(Append(rows, k), count + 1, k + 1, max_rows, env)

\* columns = list(result.keys()) if result.returns_rows else []
ResultColumns(env) == IF env.returns_rows THEN <<"c1">> ELSE <<>>

\* mutant of FailureResponse: the rows and columns read before the failure are returned
FailureResponse_KeepsRows(sql, rows, columns) ==
    [success |-> FALSE, rows |-> rows, columns |-> columns, row_count |-> 0,
     sql_executed |-> sql, warnings |-> <<>>, error |-> "str(e)"]

\* the response of the except branch; rows and columns are the locals at the failure
FailureResponse(sql, rows, columns) ==
    [success |-> FALSE, rows |-> <<>>, columns |-> <<>>, row_count |-> 0,
     sql_executed |-> sql, warnings |-> <<>>, error |-> "str(e)"]

\* the response after the try block
SuccessResponse(sql, rows, columns) ==
    [success |-> TRUE, rows |-> rows, columns |-> columns, row_count |-> Len(rows),
     sql_executed |-> sql, warnings |-> <<>>, error |-> None]

\* what the try block does: [failed, rows, columns] at its end or at the raise
TryBlock(max_rows, env) ==
    IF env.fail \in {"create_engine", "connect", "execute"}
    THEN [failed |-> TRUE, rows |-> <<>>, columns |-> <<>>]
    ELSE IF ~env.returns_rows
    THEN [failed |-> FALSE, rows |-> <<>>, columns |-> <<>>]
    ELSE LET loop == FetchLoop(<<>>, 0, 1, max_rows, env)
         IN  [failed |-> ~loop.ok, rows |-> loop.rows, columns |-> ResultColumns(env)]

\* timeout_seconds is a parameter of the method that its body never reads
execute_sql(sql, connection_id, timeout_seconds, max_rows, env) ==
    LET conn_str == get_connection_string(connection_id)
        body     == TryBlock(max_rows, env)
    IN  IF conn_str.raised THEN conn_str
        ELSE IF body.failed
             THEN IF env.exc = "SQLAlchemyError"
                  THEN Returned(FailureResponse(sql, body.rows, body.columns))
                  ELSE Raised(env.exc)
             ELSE Returned(SuccessResponse(sql, body.rows, body.columns))

\* the seconds between the call and its return: nothing bounds conn.execute
\* or the row loop (no statement timeout, no cancellation), so a call that
\* reaches the target database lasts as long as the statement does
CallSeconds(connection_id, timeout_seconds, env, duration) ==
    IF connection_id \notin StoredConnections THEN 0
    ELSE IF env.fail \in {"create_engine", "connect"} THEN 0
    ELSE duration

\* engine.connect() returned a connection: the with block of line 48 was entered
Acquired(connection_id, env) ==
    /\ connection_id \in StoredConnections
    /\ env.fail \notin {"create_engine", "connect"}

\* how the with block is left once entered: by an exception of conn.execute or
\* of the row iterator, by the break of line 58 (a row was appended and count
\* reached max_rows), or by running to its end
WithExit(max_rows, env) ==
    LET body == TryBlock(max_rows, env)
    IN  IF body.failed THEN "raise"
        ELSE IF body.rows # <<>> /\ Len(body.rows) >= max_rows THEN "break"
        ELSE "end"

\* mutant of ClosedOnExit: the connection is closed at the end of the block
\* only, as with conn = engine.connect() ... conn.close()
ClosedOnExit_EndOnly(exit) == exit = "end"

\* with engine.connect() as conn: Connection.__exit__ closes the connection
\* (hands it back to the engine's pool) however the block is left
ClosedOnExit(exit) == exit \in {"raise", "break", "end"}

\* connections the call has acquired and not closed when it returns or raises
ConnectionsHeld(connection_id, max_rows, env) ==
    IF Acquired(connection_id, env) /\ ~ClosedOnExit(WithExit(max_rows, env))
    THEN 1
    ELSE 0

\* statements handed to the executor in the executor's own specification
ExecStatements == {<<"select", " ", "x">>, <<"DELETE", " ", "x">>}

ExecIdle ==
    /\ xCall = [sql |-> <<>>, connection_id |-> 1, timeout_seconds |-> 1, max_rows |-> 1]
    /\ xEnv = [returns_rows |-> FALSE, nrows |-> 0, fail |-> "none", fail_row |-> 0,
               exc |-> "SQLAlchemyError"]
    /\ xOut = NoResult
    /\ xDuration = 0
    /\ xElapsed = 0
    /\ xHeld = 0

ExecInit ==
    /\ xCall \in [sql : ExecStatements, connection_id : ConnectionIds,
                  timeout_seconds : 1..MaxTimeout, max_rows : 0..MaxRowCap]
    /\ xEnv \in Environments
    /\ xOut = NoResult
    /\ xDuration \in 0..MaxDuration
    /\ xElapsed = 0
    /\ xHeld = 0

\* one call of execute_sql
ExecuteSql ==
    /\ xOut = NoResult
    /\ xOut' = execute_sql(xCall.sql, xCall.connection_id, xCall.timeout_seconds,
                           xCall.max_rows, xEnv)
    /\ xElapsed' = CallSeconds(xCall.connection_id, xCall.timeout_seconds, xEnv, xDuration)
    /\ xHeld' = ConnectionsHeld(xCall.connection_id, xCall.max_rows, xEnv)
    /\ UNCHANGED <<xCall, xEnv, xDuration>>
    /\ UNCHANGED <<guardVars, normVars, routeVars, storeVars, genVars, histVars>>

(***************************************************************************)
(* SQLGenerationService.generate_sql, from the model's reply on.           *)
(* Backtick is the lexeme of one backquote character; a code fence is three *)
(* of them in a row.                                                       *)
(***************************************************************************)
RECURSIVE SkipWhile(_, _, _)
\* the first index from i on whose lexeme is not in class (Len(s) + 1 if none)
SkipWhile(s, i, class) ==
    IF i <= Len(s) /\ s[i] \in class THEN SkipWhile(s, i + 1, class) ELSE i

RECURSIVE FirstIndex(_, _, _)
\* the first index from i on whose lexeme is in class (Len(s) + 1 if none)
FirstIndex(s, i, class) ==
    IF i <= Len(s) /\ s[i] \notin class THEN FirstIndex(s, i + 1, class) ELSE i

Backtick == "<backquote>"

IsFenceAt(s, i) ==
    i + 2 <= Len(s) /\ s[i] = Backtick /\ s[i + 1] = Backtick /\ s[i + 2] = Backtick

RECURSIVE FenceFrom(_, _)
\* the first index from i on where a fence starts (Len(s) + 1 if none)
FenceFrom(s, i) ==
    IF i > Len(s) THEN Len(s) + 1
    ELSE IF IsFenceAt(s, i) THEN i ELSE FenceFrom(s, i + 1)

RECURSIVE RemoveFences(_, _)
\* re.sub of the pattern  fence [\s\S]*? fence  by " ", scanning from index i: a fence and
\* the text up to the nearest closing fence become one blank
RemoveFences(s, i) ==
    IF i > Len(s) THEN <<>>
    ELSE IF IsFenceAt(s, i) /\ FenceFrom(s, i + 3) <= Len(s)
         THEN <<" ">> \o RemoveFences(s, FenceFrom(s, i + 3) + 3)
         ELSE <<s[i]>> \o RemoveFences(s, i + 1)

\* text_only.replace(backquote, " ")
ReplaceBackticks(s) == [i \in 1..Len(s) |-> IF s[i] = Backtick THEN " " ELSE s[i]]

SelectWords == {"select", "SELECT"}
WhereWords == {"where", "WHERE"}

\* mutant of SelectGroup: a greedy group,  (select[\s\S]*)(;|$), runs to the end
SelectGroup_Greedy(text_only) ==
    LET i == FirstIndex(text_only, 1, SelectWords)
    IN  IF i > Len(text_only) THEN <<>>
        ELSE SubSeq(text_only, i, Len(text_only))

\* re.search(r"(?is)(select[\s\S]*?)(;|$)", text_only): group(1), the text from
\* the first SELECT up to the next ';' or the end; <<>> when there is no match
SelectGroup(text_only) ==
    LET i == FirstIndex(text_only, 1, SelectWords)
    IN  IF i > Len(text_only) THEN <<>>
        ELSE SubSeq(text_only, i, FirstIndex(text_only, i, {";"}) - 1)

\* text_only.split(';')[0]
BeforeFirstSemicolon(text_only) ==
    SubSeq(text_only, 1, FirstIndex(text_only, 1, {";"}) - 1)

FallbackStatement == <<"SELECT", " ", "1", ";">>

\* mutant of ExtractStatement: the text is kept when it does not start with SELECT
ExtractStatement_NoFallback(raw) ==
    LET text_only == ReplaceBackticks(RemoveFences(raw, 1))
        hasMatch  == FirstIndex(text_only, 1, SelectWords) <= Len(text_only)
        sql_text  == IF hasMatch THEN Strip(SelectGroup(text_only))
                     ELSE Strip(BeforeFirstSemicolon(text_only))
    IN  RStrip(sql_text, {";"}) \o <<";">>

\* lines 88-100: the statement extracted from the reply
ExtractStatement(raw) ==
    LET text_only == ReplaceBackticks(RemoveFences(raw, 1))
        hasMatch  == FirstIndex(text_only, 1, SelectWords) <= Len(text_only)
        sql_text  == IF hasMatch THEN Strip(SelectGroup(text_only))
                     ELSE Strip(BeforeFirstSemicolon(text_only))
    IN  IF ~(sql_text # <<>> /\ LowerLexeme(sql_text[1]) = "select")
        THEN FallbackStatement
        ELSE RStrip(sql_text, {";"}) \o <<";">>

\* the character classes of the rewrite's pattern: [\w\.\"] and, under (?i), [a-z]
ColumnClass == WordLexemes \cup {".", "\""}
LiteralClass == LetterLexemes

\* the pattern  (?i)where\s+([\w\.\"]+)\s*=\s*'([a-z]+)'  tried at index i:
\* [ok, col, val, next]; every class is followed by a lexeme outside it, so the
\* greedy match is the only one
WhereMatchAt(s, i) ==
    LET p2 == SkipWhile(s, i + 1, Whitespace)
        p3 == SkipWhile(s, p2, ColumnClass)
        p4 == SkipWhile(s, p3, Whitespace)
        p5 == SkipWhile(s, p4 + 1, Whitespace)
        p6 == SkipWhile(s, p5 + 1, LiteralClass)
    IN  IF /\ i <= Len(s) /\ s[i] \in WhereWords
           /\ p2 > i + 1
           /\ p3 > p2
           /\ p4 <= Len(s) /\ s[p4] = "="
           /\ p5 <= Len(s) /\ s[p5] = "'"
           /\ p6 > p5 + 1
           /\ p6 <= Len(s) /\ s[p6] = "'"
        THEN [ok |-> TRUE, col |-> SubSeq(s, p2, p3 - 1),
              val |-> SubSeq(s, p5 + 1, p6 - 1), next |-> p6 + 1]
        ELSE [ok |-> FALSE]

RECURSIVE FixCaseInsensitive(_, _)
\* _fix_case_insensitive: re.sub of the pattern by  WHERE col ILIKE 'val'
FixCaseInsensitive(s, i) ==
    IF i > Len(s) THEN <<>>
    ELSE LET m == WhereMatchAt(s, i)
         IN  IF m.ok
             THEN <<"WHERE", " ">> \o m.col \o <<" ", "ILIKE", " ", "'">> \o m.val \o <<"'">>
                  \o FixCaseInsensitive(s, m.next)
             ELSE <<s[i]>> \o FixCaseInsensitive(s, i + 1)

\* the model call: get_openai_client() or chat.completions.create raises, or
\* the reply's content arrives
QueryResponse(sql) == [sql |-> sql, warnings |-> <<>>]

generate_sql(llm_fails, reply) ==
    IF llm_fails THEN Raised("RuntimeError")
    ELSE Returned(QueryResponse(FixCaseInsensitive(ExtractStatement(Strip(reply)), 1)))

(***************************************************************************)
(* The generator as a state machine: one call of generate_sql.  A reply is *)
(* a concatenation of at most MaxReplyChunks chunks: single lexemes, a     *)
(* code fence, and whole WHERE comparisons.                                *)
(***************************************************************************)
Fence == <<Backtick, Backtick, Backtick>>

ReplyChunks ==
    { <<"select">>, <<"SELECT">>, <<"x">>, <<" ">>, <<";">>, <<"DELETE">>,
      <<Backtick>>, Fence,
      <<"where", " ", "x", "=", "'", "abc", "'">>,
      <<"WHERE", " ", "x", " ", "=", " ", "'", "Abc", "'", " ">> }

RECURSIVE Flatten(_)
\* the chunks written one after the other
Flatten(chunks) ==
    IF chunks = <<>> THEN <<>> ELSE Head(chunks) \o Flatten(Tail(chunks))

\* resp.choices[0].message.content (None reads as the empty text)
GenReplies == {Flatten(c) : c \in TextsUpTo(ReplyChunks, MaxReplyChunks)}

\* the dialects of the databases a connection can point at
TargetDialects == {"postgresql", "sqlite", "mysql"}

GenIdle == qReply = <<>> /\ qFails = FALSE /\ qDialect = "postgresql" /\ qOut = NoResult

GenInit ==
    /\ qFails \in BOOLEAN
    /\ qReply \in (IF qFails THEN {<<>>} ELSE GenReplies)
    /\ qDialect \in TargetDialects
    /\ qOut = NoResult

\* one call of generate_sql; connection_id is used for the schema context of
\* the prompt only, the connection's dialect is never looked up
GenerateSql ==
    /\ qOut = NoResult
    /\ qOut' = generate_sql(qFails, qReply)
    /\ UNCHANGED <<qReply, qFails, qDialect>>
    /\ UNCHANGED <<guardVars, normVars, execVars, routeVars, storeVars, histVars>>

RECURSIVE RefClean(_, _, _)
\* the reply from index i on with every fenced block (a fence, the text up to
\* the next fence, that fence) and every other backquote replaced by filler
RefClean(s, i, filler) ==
    IF i > Len(s) THEN <<>>
    ELSE IF IsFenceAt(s, i) /\ FenceFrom(s, i + 3) <= Len(s)
         THEN filler \o RefClean(s, FenceFrom(s, i + 3) + 3, filler)
         ELSE (IF s[i] = Backtick THEN filler ELSE <<s[i]>>) \o RefClean(s, i + 1, filler)

\* the positions of t where SELECT occurs, in any letter case
SelectPositions(t) == {i \in 1..Len(t) : UpperLexeme(t[i]) = "SELECT"}

\* the text of t from its first SELECT up to, not including, the next ';'
FromFirstSelect(t) ==
    LET first == CHOOSE i \in SelectPositions(t) : \A j \in SelectPositions(t) : i <= j
        stops == {j \in first..Len(t) : t[j] = ";"}
        stop  == IF stops = {} THEN Len(t) + 1
                 ELSE CHOOSE j \in stops : \A k \in stops : j <= k
    IN  SubSeq(t, first, stop - 1)

\* the reference extraction as worded: blocks and backquotes removed
ReferenceExtraction(reply) ==
    LET t == RefClean(reply, 1, <<>>)
    IN  IF SelectPositions(t) = {} THEN <<"SELECT", " ", "1", ";">>
        ELSE FromFirstSelect(t) \o <<";">>

\* the reference extraction with each block and backquote replaced by one
\* blank and the captured text trimmed
TrimmedExtraction(reply) ==
    LET t == RefClean(reply, 1, <<" ">>)
    IN  IF SelectPositions(t) = {} THEN <<"SELECT", " ", "1", ";">>
        ELSE Strip(FromFirstSelect(t)) \o <<";">>

SingleSelect(sql) ==
    /\ sql # <<>>
    /\ UpperLexeme(sql[1]) = "SELECT"
    /\ sql[Len(sql)] = ";"
    /\ \A i \in 1..(Len(sql) - 1) : sql[i] # ";"

\* C13: every statement generate_sql returns begins with SELECT, ends in
\* exactly one ';', contains no other ';', and is accepted by validate_sql.
C13_GeneratedIsAccepted ==
    (qOut # NoResult /\ ~qOut.raised) =>
        /\ SingleSelect(qOut.value.sql)
        /\ validate_sql(qOut.value.sql).is_safe
        /\ ~validate_sql(qOut.value.sql).block_execution

\* C13 witness: a reply with a mutating statement before the SELECT was
\* reduced to the SELECT alone.
C13_Witness ==
    /\ qOut # NoResult /\ ~qOut.raised
    /\ qReply = <<"DELETE", ";", "select", ";">>
    /\ qOut.value.sql = <<"select", ";">>

\* C14: when the model call raises, generate_sql returns the fallback
\* statement SELECT 1; instead of raising.
C14_ModelFailureFallsBack ==
    (qOut # NoResult /\ qFails) =>
        /\ ~qOut.raised
        /\ qOut.value.sql = FallbackStatement

(***************************************************************************)
(* The guardrail as a state machine: one call of validate_sql on any       *)
(* statement text of at most MaxSqlLen lexemes.                            *)
(***************************************************************************)
GuardIdle == gSql = <<>> /\ gRes = NoResult

GuardInit ==
    /\ gSql \in TextsUpTo(SqlLexemes, MaxSqlLen)
    /\ gRes = NoResult

ValidateSql ==
    /\ gRes = NoResult
    /\ gRes' = validate_sql(gSql)
    /\ UNCHANGED gSql
    /\ UNCHANGED <<normVars, execVars, routeVars, storeVars, genVars, histVars>>

\* the statement as validate_sql reads it: trimmed, upper-cased
Normalized(sql) == Upper(Strip(sql))

\* C4: a statement with a ';' other than exactly one trailing terminator
\* (one that is left after the trimmed text loses at most one final ';')
\* is blocked.
StrayTerminator(sql) ==
    LET t    == Strip(sql)
        body == IF t # <<>> /\ t[Len(t)] = ";" THEN SubSeq(t, 1, Len(t) - 1) ELSE t
    IN  Contains(body, <<";">>)

C4_StrayTerminatorBlocked ==
    (gRes # NoResult /\ StrayTerminator(gSql)) => gRes.block_execution

\* C5: a statement that does not begin with SELECT and contains a mutating
\* keyword as a whole word (whatever follows it) is blocked, with a warning
\* naming the keyword.
MutatingKeywords == {dangerous_keywords[k][1] : k \in 1..Len(dangerous_keywords)}

WholeWordAt(s, i) ==
    /\ (i = 1 \/ s[i - 1] \notin WordLexemes)
    /\ (i = Len(s) \/ s[i + 1] \notin WordLexemes)

C5_MutatingKeywordBlocked ==
    gRes # NoResult =>
        \A i \in 1..Len(Normalized(gSql)) :
            ( /\ ~StartsWith(Normalized(gSql), <<"SELECT">>)
              /\ Normalized(gSql)[i] \in MutatingKeywords
              /\ WholeWordAt(Normalized(gSql), i) )
            => /\ gRes.block_execution
               /\ Normalized(gSql)[i] \in Range(gRes.warnings)

(***************************************************************************)
(* Schema catalog: raw structure, model reply, _normalize_with_ai.         *)
(*                                                                         *)
(* A table is [dict |-> TRUE, name, columns]; columns is the list of the   *)
(* column names (a name stands for the column's whole dict: name, type,    *)
(* nullable, primary_key, unique).  [dict |-> FALSE] is a list entry that  *)
(* is not a JSON object.                                                   *)
(***************************************************************************)
RawTableNames == {"orders", "users"}
RawColumnNames == {"id", "total"}
\* names only a model reply can contain
ReplyTableNames == RawTableNames \cup {"ghost"}
ReplyColumnNames == RawColumnNames \cup {"extra"}

\* lists of distinct elements of S, at most n long
DistinctSeqs(S, n) ==
    {s \in TextsUpTo(S, n) : \A i, j \in 1..Len(s) : i # j => s[i] # s[j]}

Table(n, cols) == [dict |-> TRUE, name |-> n, columns |-> cols]
NonDict == [dict |-> FALSE]

\* information_schema lists a table once, ORDER BY table_name; "orders" < "users"
NameOrder(n) == IF n = "orders" THEN 1 ELSE 2

\* every structure the postgresql branch of _introspect_schema can build for
\* the tables of one schema
RawSchemas ==
    {[database |-> "db", tables |-> ts] :
        ts \in {s \in TextsUpTo({Table(n, cols) : n \in RawTableNames,
                                     cols \in DistinctSeqs(RawColumnNames, MaxColumns)},
                                MaxTables) :
                   \A i, j \in 1..Len(s) : i < j => NameOrder(s[i].name) < NameOrder(s[j].name)}}

\* the dialects of the target databases a connection string can name
Dialects == {"postgresql", "sqlite", "mysql"}

\* line 36: the dialects _introspect_schema reads the catalog of
IntrospectedDialects == {"postgresql", "postgres"}

\* _introspect_schema on a target whose catalog holds the tables of catalog:
\* any other dialect takes the else branch (pass) and the initial values of
\* database_name and tables are returned
introspect_schema(dialect, catalog) ==
    IF dialect \in IntrospectedDialects
    THEN catalog
    ELSE [database |-> "unknown", tables |-> <<>>]

ReplyEntries ==
    {NonDict} \cup {Table(n, cols) : n \in ReplyTableNames,
                        cols \in DistinctSeqs(ReplyColumnNames, MaxColumns)}

\* JSON documents a reply can hold
JsonObjectNoTables == [type |-> "object", has_tables |-> FALSE]
JsonObjectTablesNull == [type |-> "object", has_tables |-> TRUE, is_list |-> FALSE]
JsonObject(ts) == [type |-> "object", has_tables |-> TRUE, is_list |-> TRUE, tables |-> ts]
JsonArray == [type |-> "array"]

\* the model call of lines 142-154: get_openai_client() or
\* chat.completions.create raises, or resp.choices[0].message.content arrives:
\* None or "", text that is no JSON, or JSON text
Replies ==
    {[kind |-> "raises"], [kind |-> "empty"], [kind |-> "not_json"]}
    \cup {[kind |-> "json", doc |-> d] :
            d \in {JsonArray, JsonObjectNoTables, JsonObjectTablesNull}
                  \cup {JsonObject(ts) : ts \in TextsUpTo(ReplyEntries, MaxTables)}}

\* content = resp.choices[0].message.content or "{}"
Content(reply) ==
    IF reply.kind = "empty" THEN [kind |-> "json", doc |-> JsonObjectNoTables] ELSE reply

\* json.loads(content): the document, or an exception
json_loads(content) ==
    IF content.kind = "json" THEN [ok |-> TRUE, value |-> content.doc] ELSE [ok |-> FALSE]

\* normalized.get("tables", []) on a parsed object
GetTables(obj) ==
    IF obj.has_tables THEN obj.tables ELSE <<>>

\* [t.get("name") for t in tables if isinstance(t, dict)]
TableNameList(tables) ==
    LET dicts == SelectSeq(tables, LAMBDA t : t.dict)
    IN  [i \in 1..Len(dicts) |-> dicts[i].name]

\* mutant of TablesMismatch: only the emptiness test, no comparison of the sets
TablesMismatch_NoSetCheck(norm_tables, raw_tables) ==
    norm_tables = <<>>

\* the condition of the fallback:  not norm_tables or set(norm_tables) != set(raw_tables)
TablesMismatch(norm_tables, raw_tables) ==
    norm_tables = <<>> \/ Range(norm_tables) # Range(raw_tables)

\* the structure rebuilt from the raw one, field by field
RawVerbatim(raw_schema) ==
    [database |-> raw_schema.database,
     tables   |-> [i \in 1..Len(raw_schema.tables) |->
                      Table(raw_schema.tables[i].name,
                            [j \in 1..Len(raw_schema.tables[i].columns) |->
                                raw_schema.tables[i].columns[j]])]]

\* _normalize_with_ai.  An exception of the model call is not caught.  A reply
\* that json.loads rejects is replaced by the raw tables (the except branch)
\* and then checked like any other; normalized.get raises AttributeError on a
\* document that is no
\* object; iterating a "tables" that is no list (null, a number) raises
\* TypeError.  An accepted reply is returned as the model wrote it (its
\* "database" entry is not looked at and is not modelled).
normalize_with_ai(raw_schema, reply) ==
    LET parsed     == json_loads(Content(reply))
        normalized == IF parsed.ok THEN parsed.value ELSE JsonObject(raw_schema.tables)
    IN  IF reply.kind = "raises" THEN Raised("RuntimeError")
        ELSE IF normalized.type # "object" THEN Raised("AttributeError")
        ELSE IF normalized.has_tables /\ ~normalized.is_list THEN Raised("TypeError")
        ELSE IF TablesMismatch(TableNameList(GetTables(normalized)),
                               TableNameList(raw_schema.tables))
             THEN Returned(RawVerbatim(raw_schema))
             ELSE Returned([database |-> raw_schema.database,
                            tables |-> GetTables(normalized)])

NormIdle ==
    /\ nDialect = "postgresql"
    /\ nRaw = [database |-> "db", tables |-> <<>>]
    /\ nReply = [kind |-> "empty"]
    /\ nOut = NoResult
    /\ nStored = NoResult

NormInit ==
    /\ nDialect \in Dialects
    /\ nRaw \in {introspect_schema(nDialect, catalog) : catalog \in RawSchemas}
    /\ nReply \in Replies
    /\ nOut = NoResult
    /\ nStored = NoResult

\* discover_and_save for one connection, run alone: introspect, normalize,
\* then write schema_json of the connection's row and commit; an exception
\* of _normalize_with_ai leaves before the store is touched.
DiscoverAndSave ==
    /\ nOut = NoResult
    /\ LET normalized == normalize_with_ai(nRaw, nReply)
       IN  /\ nOut' = normalized
           /\ nStored' = IF normalized.raised THEN nStored ELSE normalized.value
    /\ UNCHANGED <<nDialect, nRaw, nReply>>
    /\ UNCHANGED <<guardVars, execVars, routeVars, storeVars, genVars, histVars>>


\* table names of a schema, as the code reads them (dict entries of "tables")
tableNames(S) == Range(TableNameList(S.tables))
columnNames(t) == Range(t.columns)
\* the model's reply is a JSON object with a list of tables
ReplyIsTableList ==
    /\ nReply.kind = "json"
    /\ nReply.doc.type = "object"
    /\ nReply.doc.has_tables
    /\ nReply.doc.is_list

\* C1: every table of the snapshot returned and persisted by discover_and_save
\* has exactly the column names of the raw table of the same name.
C1_ColumnNamesPreserved ==
    (nOut # NoResult /\ ~nOut.raised) =>
        /\ nStored = nOut.value
        /\ \A i \in 1..Len(nOut.value.tables) : \A j \in 1..Len(nRaw.tables) :
              (nOut.value.tables[i].dict
                 /\ nOut.value.tables[i].name = nRaw.tables[j].name)
              => columnNames(nOut.value.tables[i]) = columnNames(nRaw.tables[j])

\* C2: whenever normalization returns, the table names of the snapshot are
\* exactly the table names of the raw structure.
C2_TableNamesPreserved ==
    (nOut # NoResult /\ ~nOut.raised) =>
        /\ nStored = nOut.value
        /\ tableNames(nOut.value) = tableNames(nRaw)

\* C2 witness: a reply with a table list of its own was accepted (returned and
\* stored in place of the raw structure).
C2_Witness ==
    /\ nOut # NoResult /\ ~nOut.raised
    /\ ReplyIsTableList
    /\ nRaw.tables # <<>>
    /\ nOut.value.tables = nReply.doc.tables
    /\ nOut.value.tables # nRaw.tables

\* C15: when the model call of the normalization raises, discover_and_save
\* still returns, and persists, the raw introspected structure.
C15_ModelFailureKeepsRaw ==
    (nOut # NoResult /\ nReply.kind = "raises") =>
        /\ ~nOut.raised
        /\ nOut.value = RawVerbatim(nRaw)
        /\ nStored = nOut.value

\* C22: discovery against a target whose dialect introspection does not
\* support ends in an error for the caller and persists no snapshot.
C22_UnsupportedDialectRejected ==
    (nOut # NoResult /\ nDialect \notin IntrospectedDialects) =>
        /\ nOut.raised
        /\ nStored = NoResult

\* the reply cannot be used: no JSON, JSON that is no object, an object
\* without a list under "tables", or table names other than the raw ones
UnusableReply ==
    LET content == Content(nReply)
    IN  \/ content.kind = "not_json"
        \/ /\ content.kind = "json"
           /\ \/ content.doc.type # "object"
              \/ ~content.doc.has_tables
              \/ ~content.doc.is_list
              \/ Range(TableNameList(content.doc.tables)) # tableNames(nRaw)

\* C25: for every reply that cannot be used, _normalize_with_ai returns
\* without raising, and what it returns is the raw structure verbatim.
C25_UnusableReplyKeepsRaw ==
    (nOut # NoResult /\ UnusableReply) =>
        /\ ~nOut.raised
        /\ nOut.value = RawVerbatim(nRaw)

\* the call got past _get_connection_string and the try block raised
EngineFailure(call, env) ==
    /\ call.connection_id \in StoredConnections
    /\ TryBlock(call.max_rows, env).failed

\* C6: whatever the statement, the result set and max_rows (0 included), a
\* returned response has row_count <= max_rows.
C6_RowCountWithinCap ==
    (xOut # NoResult /\ ~xOut.raised) => xOut.value.row_count <= xCall.max_rows

\* the first n rows of the statement's result set, in result order
FirstRows(n) == [k \in 1..n |-> k]

\* C24: a statement whose result set has more than max_rows rows returns
\* success with exactly the first max_rows rows and row_count = max_rows; one
\* with n <= max_rows rows returns all n.
C24_TruncatesAtMaxRows ==
    (/\ xOut # NoResult
     /\ xCall.connection_id \in StoredConnections
     /\ xEnv.fail = "none"
     /\ xEnv.returns_rows)
    => /\ ~xOut.raised
       /\ xOut.value.success
       /\ xOut.value.rows = FirstRows(IF xEnv.nrows > xCall.max_rows
                                      THEN xCall.max_rows ELSE xEnv.nrows)
       /\ xOut.value.row_count = Len(xOut.value.rows)

C8_FailureIsReturned ==
    (xOut # NoResult /\ EngineFailure(xCall, xEnv)) =>
        /\ ~xOut.raised
        /\ ~xOut.value.success
        /\ xOut.value.error # None

\* C19: every call of execute_sql returns within timeout_seconds; a statement
\* that runs longer is cancelled and the call returns success = false.
C19_ReturnsWithinTimeout ==
    xOut # NoResult =>
        /\ xElapsed <= xCall.timeout_seconds
        /\ (xCall.connection_id \in StoredConnections /\ xEnv.fail = "none"
              /\ xDuration > xCall.timeout_seconds)
           => (~xOut.raised /\ ~xOut.value.success)

(***************************************************************************)
(* The routes of api/routes/query.py and the rerun route of                *)
(* api/routes/history.py.  A route runs from the request to the response   *)
(* without yielding to another request (its awaits never suspend), so each *)
(* is one action; the background tasks it queued run after the response,   *)
(* one action each.  oCalls records, in order, the service calls made and  *)
(* the moment the response was determined.                                 *)
(***************************************************************************)
Entries == {"generate", "execute", "generate_and_execute", "generate_execute_suggest",
            "rerun"}
GeneratingEntries == {"generate", "generate_and_execute", "generate_execute_suggest"}

\* statements a client sends to /execute
OrchStatements ==
    { <<"select", " ", "x">>,
      <<"select", " ", "x", ";">>,
      <<"select", " ", "x", ";", "DELETE", " ", "x">>,
      <<"DELETE", " ", "x">>,
      <<"drop", "\t", "x">>,
      <<"x">> }

\* replies of the model to the generation prompt
OrchReplies ==
    { <<"select", " ", "x">>,
      <<Backtick, Backtick, Backtick, "select", " ", "x", ";", Backtick, Backtick, Backtick, "x">>,
      <<"DELETE", " ", "x", ";", "select", " ", "x", ";", "drop", " ", "x">>,
      <<"select", " ", "x", " ", "where", " ", "x", "=", "'", "abc", "'">>,
      <<"x">>,
      <<>> }

\* statements of the records of query_history that a rerun can name
StoredStatements ==
    { <<"select", " ", "x">>,
      <<"DELETE", " ", "x">>,
      <<"select", " ", "x", ";", "DELETE", " ", "x">> }

\* a row of query_history; its id is its position in the table
HistoryRecord(connection_id, sql, result) ==
    [connection_id |-> connection_id, sql |-> sql, row_count |-> result.row_count,
     success |-> result.success, error |-> result.error, pinned |-> FALSE]

\* the table query_history when a rerun request arrives: one earlier run
StoredHistories ==
    {<<[connection_id |-> c, sql |-> q, row_count |-> 0, success |-> TRUE,
        error |-> None, pinned |-> FALSE]>> : c \in ConnectionIds, q \in StoredStatements}

\* QueryExecutionRequest (/execute), QueryRequest (the generating routes; the
\* model's behaviour is carried with the request), and the path parameter of
\* /history/{history_id}/rerun.  timeout_seconds is an integer >= 1, or None,
\* written 0; temperature 0 and 1 stand for 0.0 and 1.0.
Requests ==
    [entry : {"execute"}, sql : OrchStatements, require_approval : BOOLEAN,
     connection_id : ConnectionIds, timeout_seconds : {0, 1}, temperature : {0},
     llm_fails : {FALSE}, reply : {<<>>}, history_id : {0}]
    \cup
    {r \in [entry : GeneratingEntries, sql : {<<>>}, require_approval : {FALSE},
            connection_id : ConnectionIds, timeout_seconds : {0}, temperature : {0, 1},
            llm_fails : BOOLEAN, reply : OrchReplies, history_id : {0}] :
        /\ r.llm_fails => r.reply = <<>>
        /\ r.entry # "generate_execute_suggest" => r.temperature = 0}
    \cup
    [entry : {"rerun"}, sql : {<<>>}, require_approval : {FALSE},
     connection_id : {1}, timeout_seconds : {0}, temperature : {0},
     llm_fails : {FALSE}, reply : {<<>>}, history_id : {1, 2}]

SettingsValues ==
    [require_sql_approval : BOOLEAN, max_rows_returned : 0..MaxRowCap,
     max_execution_time_seconds : {MaxTimeout}]

\* the defaults of execute_sql's parameters
DefaultTimeoutSeconds == 30
DefaultMaxRows == 1000

\* Python's  a or b  on an Optional number (None and 0 are both false)
PyOr(a, b) == IF a = 0 THEN b ELSE a

\* an HTTPException (or the framework's answer to an uncaught exception)
HttpError(status, detail) == [status |-> status, detail |-> detail]
\* a returned body
HttpOk(body) == [status |-> 200, body |-> body]

\* detail of the 400 raised for a refused statement: it joins the warnings
BlockedDetail(validation) == [blocked |-> TRUE, warnings |-> validation.warnings]
\* detail of the 500 built by "except Exception as e": it embeds str(e)
FailedDetail(e) == [blocked |-> FALSE, cause |-> e]

\* the keyword arguments of executor.execute_sql
ExecArgs(sql, connection_id, timeout_seconds, max_rows) ==
    [sql |-> sql, connection_id |-> connection_id, timeout_seconds |-> timeout_seconds,
     max_rows |-> max_rows]

\* the call of executor.execute_sql with these arguments
Invoke(call, env) ==
    execute_sql(call.sql, call.connection_id, call.timeout_seconds, call.max_rows, env)

(***************************************************************************)
(* SQLExecutorService.log_query_execution.  log_env is how the application *)
(* database behaves during the write.                                      *)
(***************************************************************************)
\* the table exists; has_table is false and create_all creates it; has_table
\* is false (or inspect raises) and the table stays missing; the INSERT of the
\* flush fails; the COMMIT fails
LogEnvs == {"ok", "table_created", "no_table", "insert_error", "commit_error"}
FailingLogEnvs == {"no_table", "insert_error", "commit_error"}

\* a queued background task: add_task(func, request=..., result=...)
Task(name, request, result) == [name |-> name, request |-> request, result |-> result]
LogRequest(sql, connection_id) == [sql |-> sql, connection_id |-> connection_id]

\* mutant of log_query_execution: the exception of the write is not caught
log_query_execution_Propagates(history, request, result, log_env) ==
    IF log_env \in FailingLogEnvs
    THEN [raised |-> TRUE, history |-> history]
    ELSE [raised |-> FALSE,
          history |-> Append(history,
                             HistoryRecord(request.connection_id,
                                           IF result.sql_executed # <<>>
                                           THEN result.sql_executed ELSE request.sql,
                                           result))]

\* lines 87-111: db.add, db.commit; on any exception db.rollback(), so the
\* row of a failed flush or commit is not kept; the method returns None
log_query_execution(history, request, result, log_env) ==
    LET rec      == HistoryRecord(request.connection_id,
                                  IF result.sql_executed # <<>>
                                  THEN result.sql_executed ELSE request.sql,
                                  result)
        flushed  == IF log_env \in {"no_table", "insert_error"}
                    THEN [failed |-> TRUE, rows |-> history]
                    ELSE [failed |-> FALSE, rows |-> Append(history, rec)]
        commited == IF flushed.failed \/ log_env = "commit_error"
                    THEN [failed |-> TRUE, rows |-> history]
                    ELSE [failed |-> FALSE, rows |-> flushed.rows]
    IN  [raised |-> FALSE, history |-> commited.rows]

\* what a route leaves behind
RouteResult(validation, call, out, resp, tasks, calls, history) ==
    [validation |-> validation, exec_call |-> call, exec_out |-> out,
     resp |-> resp, tasks |-> tasks, calls |-> calls, history |-> history]

\* mutant of ApprovalRequired: the global setting is not consulted
ApprovalRequired_RequestOnly(req, settings) == req.require_approval

\* /execute, line 248
ApprovalRequired(req, settings) ==
    req.require_approval \/ settings.require_sql_approval

\* mutant of ExecuteRefuses: only the multi-statement warning refuses
ExecuteRefuses_OnlyMultiStatement(validation) ==
    MultiStatementWarning \in Range(validation.warnings)

\* /execute, line 254:  if not validation_result.is_safe
ExecuteRefuses(validation) == ~validation.is_safe

\* /generate, /generate-and-execute, /generate-execute-suggest:
\* if not is_safe ... if block_execution: raise
GeneratedRefused(validation) == ~validation.is_safe /\ validation.block_execution

\* POST /execute
execute_route(req, settings, env, history, log_env) ==
    LET approval   == ApprovalRequired(req, settings)
        validation == IF approval THEN validate_sql(req.sql) ELSE NoResult
        checked    == IF approval THEN <<"validate_sql">> ELSE <<>>
        call       == ExecArgs(req.sql, req.connection_id,
                               PyOr(req.timeout_seconds, settings.max_execution_time_seconds),
                               settings.max_rows_returned)
        out        == Invoke(call, env)
    IN  IF approval /\ ExecuteRefuses(validation)
        THEN \* the HTTPException(400) is raised inside the try and caught by
             \* "except Exception", which raises HTTPException(500)
             RouteResult(validation, NoResult, NoResult,
                         HttpError(500, FailedDetail(HttpError(400, BlockedDetail(validation)))),
                         <<>>, checked \o <<"response">>, history)
        ELSE IF out.raised
        THEN RouteResult(validation, call, out, HttpError(500, FailedDetail(out.exc)),
                         <<>>, checked \o <<"execute_sql", "response">>, history)
        ELSE RouteResult(validation, call, out, HttpOk(out.value),
                         <<Task("log_query_execution",
                                LogRequest(req.sql, req.connection_id), out.value)>>,
                         checked \o <<"execute_sql", "response">>, history)

\* POST /generate
generate_route(req, settings, env, history, log_env) ==
    LET gen        == generate_sql(req.llm_fails, req.reply)
        validation == validate_sql(gen.value.sql)
        result     == [gen.value EXCEPT !.warnings = @ \o validation.warnings]
    IN  IF gen.raised
        THEN RouteResult(NoResult, NoResult, NoResult,
                         HttpError(500, FailedDetail(gen.exc)),
                         <<>>, <<"generate_sql", "response">>, history)
        ELSE IF GeneratedRefused(validation)
        THEN RouteResult(validation, NoResult, NoResult,
                         HttpError(500, FailedDetail(HttpError(400, BlockedDetail(validation)))),
                         <<>>, <<"generate_sql", "validate_sql", "response">>, history)
        ELSE RouteResult(validation, NoResult, NoResult,
                         HttpOk(IF validation.is_safe THEN gen.value ELSE result),
                         <<Task("log_query_generation", NoResult, NoResult)>>,
                         <<"generate_sql", "validate_sql", "response">>, history)

\* lines 329-331: sql_executed and the generator's warnings are written into
\* the executor's response
AmendExecution(execution_result, sql_result) ==
    [execution_result EXCEPT !.sql_executed = sql_result.sql,
                             !.warnings = @ \o sql_result.warnings]

\* POST /generate-and-execute
generate_and_execute_route(req, settings, env, history, log_env) ==
    LET gen        == generate_sql(req.llm_fails, req.reply)
        validation == validate_sql(gen.value.sql)
        sql_result == IF validation.is_safe THEN gen.value
                      ELSE [gen.value EXCEPT !.warnings = @ \o validation.warnings]
        call       == ExecArgs(gen.value.sql, req.connection_id,
                               settings.max_execution_time_seconds,
                               settings.max_rows_returned)
        out        == Invoke(call, env)
    IN  IF gen.raised
        THEN RouteResult(NoResult, NoResult, NoResult,
                         HttpError(500, FailedDetail(gen.exc)),
                         <<>>, <<"generate_sql", "response">>, history)
        ELSE IF GeneratedRefused(validation)
        THEN RouteResult(validation, NoResult, NoResult,
                         HttpError(500, FailedDetail(HttpError(400, BlockedDetail(validation)))),
                         <<>>, <<"generate_sql", "validate_sql", "response">>, history)
        ELSE IF out.raised
        THEN RouteResult(validation, call, out, HttpError(500, FailedDetail(out.exc)),
                         <<>>, <<"generate_sql", "validate_sql", "execute_sql", "response">>,
                         history)
        ELSE RouteResult(validation, call, out,
                         HttpOk(AmendExecution(out.value, sql_result)),
                         <<Task("log_query_generation", NoResult, NoResult),
                           Task("log_query_execution",
                                LogRequest(gen.value.sql, req.connection_id),
                                AmendExecution(out.value, sql_result))>>,
                         <<"generate_sql", "validate_sql", "execute_sql", "response">>,
                         history)

\* POST /generate-execute-suggest: no try block, so an exception of the
\* generator or the executor reaches the framework (500) and the 400 of a
\* refused statement reaches the client; the timeout passed is
\* request.temperature or the setting; background_tasks is never used; the
\* chart is not modelled
generate_execute_suggest_route(req, settings, env, history, log_env) ==
    LET gen        == generate_sql(req.llm_fails, req.reply)
        validation == validate_sql(gen.value.sql)
        call       == ExecArgs(gen.value.sql, req.connection_id,
                               PyOr(req.temperature, settings.max_execution_time_seconds),
                               settings.max_rows_returned)
        out        == Invoke(call, env)
    IN  IF gen.raised
        THEN RouteResult(NoResult, NoResult, NoResult,
                         HttpError(500, FailedDetail(gen.exc)),
                         <<>>, <<"generate_sql", "response">>, history)
        ELSE IF GeneratedRefused(validation)
        THEN RouteResult(validation, NoResult, NoResult,
                         HttpError(400, BlockedDetail(validation)),
                         <<>>, <<"generate_sql", "validate_sql", "response">>, history)
        ELSE IF out.raised
        THEN RouteResult(validation, call, out, HttpError(500, FailedDetail(out.exc)),
                         <<>>, <<"generate_sql", "validate_sql", "execute_sql", "response">>,
                         history)
        ELSE RouteResult(validation, call, out, HttpOk(out.value),
                         <<>>, <<"generate_sql", "validate_sql", "execute_sql", "response">>,
                         history)

\* mutant of rerun_route: the stored statement is validated when the global
\* setting requires approval, and refused when it is not safe
rerun_route_Guarded(req, settings, env, history, log_env) ==
    LET found == req.history_id \in 1..Len(history)
        rec   == history[req.history_id]
        validation == validate_sql(rec.sql)
        call  == ExecArgs(rec.sql, rec.connection_id, DefaultTimeoutSeconds, DefaultMaxRows)
        out   == Invoke(call, env)
        log   == log_query_execution(history, LogRequest(rec.sql, rec.connection_id),
                                     out.value, log_env)
    IN  IF ~found
        THEN RouteResult(NoResult, NoResult, NoResult,
                         HttpError(404, FailedDetail("History not found")),
                         <<>>, <<"response">>, history)
        ELSE IF settings.require_sql_approval /\ ~validation.is_safe
        THEN RouteResult(validation, NoResult, NoResult,
                         HttpError(400, BlockedDetail(validation)),
                         <<>>, <<"validate_sql", "response">>, history)
        ELSE IF out.raised
        THEN RouteResult(NoResult, call, out, HttpError(500, FailedDetail(out.exc)),
                         <<>>, <<"execute_sql", "response">>, history)
        ELSE RouteResult(NoResult, call, out, HttpOk(out.value),
                         <<>>, <<"execute_sql", "log_query_execution", "response">>,
                         log.history)

\* POST /history/{history_id}/rerun: no try block and no guardrail; the
\* executor's defaults are the timeout and the row cap; the write of the new
\* history row is awaited before the response is returned
rerun_route(req, settings, env, history, log_env) ==
    LET found == req.history_id \in 1..Len(history)
        rec   == history[req.history_id]
        call  == ExecArgs(rec.sql, rec.connection_id, DefaultTimeoutSeconds, DefaultMaxRows)
        out   == Invoke(call, env)
        log   == log_query_execution(history, LogRequest(rec.sql, rec.connection_id),
                                     out.value, log_env)
    IN  IF ~found
        THEN RouteResult(NoResult, NoResult, NoResult,
                         HttpError(404, FailedDetail("History not found")),
                         <<>>, <<"response">>, history)
        ELSE IF out.raised
        THEN RouteResult(NoResult, call, out, HttpError(500, FailedDetail(out.exc)),
                         <<>>, <<"execute_sql", "response">>, history)
        ELSE IF log.raised
        THEN \* an exception of the awaited write would reach the framework
             RouteResult(NoResult, call, out, HttpError(500, FailedDetail("log")),
                         <<>>, <<"execute_sql", "log_query_execution", "response">>,
                         log.history)
        ELSE RouteResult(NoResult, call, out, HttpOk(out.value),
                         <<>>, <<"execute_sql", "log_query_execution", "response">>,
                         log.history)

RouteIdle ==
    /\ oSettings = [require_sql_approval |-> FALSE, max_rows_returned |-> 1,
                    max_execution_time_seconds |-> 1]
    /\ oReq = [entry |-> "none"]
    /\ oEnv = [returns_rows |-> FALSE, nrows |-> 0, fail |-> "none", fail_row |-> 0,
               exc |-> "SQLAlchemyError"]
    /\ oValidation = NoResult
    /\ oExecCall = NoResult
    /\ oExecOut = NoResult
    /\ oResp = NoResult
    /\ oTasks = <<>>
    /\ oCalls = <<>>
    /\ oHistory = <<>>
    /\ oLogEnv = "ok"

\* one request arrives: the settings, the request, the behaviour of the
\* target database and of the application database; query_history holds an
\* earlier run when the request is a rerun
RouteInit ==
    /\ oSettings \in SettingsValues
    /\ oReq \in Requests
    /\ oEnv \in Environments
    /\ oValidation = NoResult
    /\ oExecCall = NoResult
    /\ oExecOut = NoResult
    /\ oResp = NoResult
    /\ oTasks = <<>>
    /\ oCalls = <<>>
    /\ oHistory \in (IF oReq.entry = "rerun" THEN StoredHistories ELSE {<<>>})
    /\ oLogEnv \in (IF oReq.entry = "generate" THEN {"ok"} ELSE LogEnvs)

\* the pending request is handled by the route r of its entry point
Handle(entry, r) ==
    /\ oResp = NoResult
    /\ oReq.entry = entry
    /\ oValidation' = r.validation
    /\ oExecCall' = r.exec_call
    /\ oExecOut' = r.exec_out
    /\ oResp' = r.resp
    /\ oTasks' = r.tasks
    /\ oCalls' = r.calls
    /\ oHistory' = r.history
    /\ UNCHANGED <<oSettings, oReq, oEnv, oLogEnv>>
    /\ UNCHANGED <<guardVars, normVars, execVars, storeVars, genVars, histVars>>

Generate == Handle("generate", generate_route(oReq, oSettings, oEnv, oHistory, oLogEnv))

Execute == Handle("execute", execute_route(oReq, oSettings, oEnv, oHistory, oLogEnv))

GenerateAndExecute ==
    Handle("generate_and_execute",
           generate_and_execute_route(oReq, oSettings, oEnv, oHistory, oLogEnv))

GenerateExecuteSuggest ==
    Handle("generate_execute_suggest",
           generate_execute_suggest_route(oReq, oSettings, oEnv, oHistory, oLogEnv))

Rerun == Handle("rerun", rerun_route(oReq, oSettings, oEnv, oHistory, oLogEnv))

\* after the response is sent the framework runs the queued tasks in order;
\* log_query_generation does nothing, log_query_execution writes the history
RunBackgroundTask ==
    /\ oResp # NoResult
    /\ oTasks # <<>>
    /\ LET task == Head(oTasks)
       IN  /\ oCalls' = Append(oCalls, task.name)
           /\ oHistory' = IF task.name = "log_query_execution"
                          THEN log_query_execution(oHistory, task.request, task.result,
                                                   oLogEnv).history
                          ELSE oHistory
    /\ oTasks' = Tail(oTasks)
    /\ UNCHANGED <<oSettings, oReq, oEnv, oValidation, oExecCall, oExecOut, oResp, oLogEnv>>
    /\ UNCHANGED <<guardVars, normVars, execVars, storeVars, genVars, histVars>>

RouteNext ==
    \/ Generate
    \/ Execute
    \/ GenerateAndExecute
    \/ GenerateExecuteSuggest
    \/ Rerun
    \/ RunBackgroundTask

Handled == oResp # NoResult
GuardrailBlocked == oValidation # NoResult /\ oValidation.block_execution

\* C3: in every entry point that evaluates the guardrail, a statement whose
\* decision has block = true is never handed to the executor.
C3_BlockedNeverExecuted ==
    (Handled /\ GuardrailBlocked) => (oExecCall = NoResult /\ oExecOut = NoResult)

\* C3 witness: /execute with approval required refused a statement.
C3_Witness ==
    /\ Handled
    /\ oReq.entry = "execute"
    /\ oReq.require_approval
    /\ GuardrailBlocked
    /\ "DELETE" \in Range(oValidation.warnings)

\* the ExecutionResult invariant of the data model
WellFormedResult(r) ==
    /\ r.row_count = Len(r.rows)
    /\ (~r.success => r.rows = <<>> /\ r.columns = <<>> /\ r.row_count = 0 /\ r.error # None)
    /\ (r.success => r.error = None)

\* C7: every response execute_sql returns, and every one a route returns
\* after amending it, has row_count = len(rows); success = false implies no
\* rows, no columns, row_count 0 and an error; success = true implies no error.
C7_ResultWellFormed ==
    /\ (oExecOut # NoResult /\ ~oExecOut.raised) => WellFormedResult(oExecOut.value)
    /\ (Handled /\ oResp.status = 200 /\ oReq.entry # "generate")
          => WellFormedResult(oResp.body)

\* C7 witness: /generate-and-execute returned the amended response of a call
\* that failed after rows had been read.
C7_Witness ==
    /\ Handled
    /\ oReq.entry = "generate_and_execute"
    /\ oResp.status = 200
    /\ ~oResp.body.success
    /\ oEnv.fail = "fetch" /\ oEnv.fail_row > 1

\* C10: when the guardrail blocks in /generate, /execute or
\* /generate-and-execute, the response is a client error (4xx) that carries
\* the guardrail's warnings.
C10_BlockedIsClientError ==
    (Handled /\ GuardrailBlocked /\ oReq.entry # "generate_execute_suggest") =>
        /\ oResp.status \in 400..499
        /\ oResp.detail.blocked
        /\ oResp.detail.warnings = oValidation.warnings

\* the index of the first occurrence of name in the call trace (0: none)
CallIndex(calls, name) ==
    IF name \in Range(calls)
    THEN CHOOSE i \in 1..Len(calls) : calls[i] = name /\ \A j \in 1..(i - 1) : calls[j] # name
    ELSE 0

\* C11: /execute evaluates the guardrail if and only if the request's
\* require_approval or the setting require_sql_approval is true; then the
\* decision is obtained before the executor is invoked and the executor runs
\* only if is_safe; when both are false the statement goes to the executor
\* without any guardrail evaluation.
C11_GuardrailIffApproval ==
    (Handled /\ oReq.entry = "execute") =>
        /\ ("validate_sql" \in Range(oCalls))
              <=> (oReq.require_approval \/ oSettings.require_sql_approval)
        /\ (oValidation # NoResult) <=> ("validate_sql" \in Range(oCalls))
        /\ (oReq.require_approval \/ oSettings.require_sql_approval) =>
              /\ oValidation = validate_sql(oReq.sql)
              /\ ("execute_sql" \in Range(oCalls)) <=> oValidation.is_safe
              /\ oValidation.is_safe =>
                    CallIndex(oCalls, "validate_sql") < CallIndex(oCalls, "execute_sql")
        /\ ~(oReq.require_approval \/ oSettings.require_sql_approval) =>
              /\ "execute_sql" \in Range(oCalls)
              /\ oExecCall # NoResult /\ oExecCall.sql = oReq.sql

\* C11 witness: with both flags false, /execute handed the executor a
\* statement the guardrail would block.
C11_Witness ==
    /\ Handled /\ oReq.entry = "execute"
    /\ ~oReq.require_approval /\ ~oSettings.require_sql_approval
    /\ validate_sql(oReq.sql).block_execution
    /\ oExecCall # NoResult /\ oExecCall.sql = oReq.sql
    /\ oExecOut # NoResult /\ ~oExecOut.raised /\ oExecOut.value.success

\* C16: an execution against a connection id without a DbConnection row is
\* answered 404 (NotFound), not 500 and not by an uncaught exception.
C16_MissingConnectionIsNotFound ==
    (Handled /\ oExecCall # NoResult /\ oExecCall.connection_id \notin StoredConnections) =>
        oResp.status = 404

ExecutingEntries == {"execute", "generate_and_execute", "generate_execute_suggest", "rerun"}

\* an execution attempt: the request reached the guardrail's refusal or the executor
ExecutionAttempt ==
    /\ oReq.entry \in ExecutingEntries
    /\ (GuardrailBlocked \/ oExecCall # NoResult)

\* the request is answered and no background task is left
Quiescent == Handled /\ oTasks = <<>>

\* C17: every execution attempt, however it ends, has had an audit-log write
\* initiated once the request and its background tasks are over.
C17_EveryAttemptLogged ==
    (Quiescent /\ ExecutionAttempt) => "log_query_execution" \in Range(oCalls)

\* the route of the pending request, with the history write behaving as log_env
RouteOf(log_env) ==
    CASE oReq.entry = "generate" -> generate_route(oReq, oSettings, oEnv, oHistory, log_env)
      [] oReq.entry = "execute" -> execute_route(oReq, oSettings, oEnv, oHistory, log_env)
      [] oReq.entry = "generate_and_execute" ->
            generate_and_execute_route(oReq, oSettings, oEnv, oHistory, log_env)
      [] oReq.entry = "generate_execute_suggest" ->
            generate_execute_suggest_route(oReq, oSettings, oEnv, oHistory, log_env)
      [] oReq.entry = "rerun" -> rerun_route(oReq, oSettings, oEnv, oHistory, log_env)

\* C18: however the history write fails, the response is the one returned
\* when the write succeeds, it does not change once determined, and a failed
\* write leaves the history table as it was.
C18_LoggingFailureSwallowed ==
    /\ [](Handled => oResp = RouteOf("ok").resp)
    /\ [][(oResp # NoResult => oResp' = oResp)
          /\ (oLogEnv \in FailingLogEnvs => oHistory' = oHistory)]_vars

\* C18 witness: a rerun whose history write failed at COMMIT was answered
\* with the executor's result.
C18_Witness ==
    /\ Handled /\ oReq.entry = "rerun"
    /\ oLogEnv = "commit_error"
    /\ "log_query_execution" \in Range(oCalls)
    /\ oResp.status = 200
    /\ Len(oHistory) = 1

\* C20: a rerun hands the stored statement and connection id of the record to
\* the executor verbatim and never evaluates the guardrail, whatever the
\* statement and the setting require_sql_approval; a missing history id is
\* answered 404 with no execution.
C20_RerunSkipsGuardrail ==
    (Handled /\ oReq.entry = "rerun") =>
        /\ "validate_sql" \notin Range(oCalls)
        /\ oValidation = NoResult
        /\ IF oReq.history_id \in 1..Len(oHistory)
           THEN /\ oExecCall # NoResult
                /\ oExecCall.sql = oHistory[oReq.history_id].sql
                /\ oExecCall.connection_id = oHistory[oReq.history_id].connection_id
                /\ "execute_sql" \in Range(oCalls)
           ELSE /\ oResp.status = 404
                /\ oExecCall = NoResult
                /\ "execute_sql" \notin Range(oCalls)

\* C20 witness: with require_sql_approval set, a rerun executed a stored
\* statement the guardrail blocks.
C20_Witness ==
    /\ Handled /\ oReq.entry = "rerun"
    /\ oSettings.require_sql_approval
    /\ oExecCall # NoResult
    /\ validate_sql(oExecCall.sql).block_execution
    /\ oExecOut # NoResult /\ ~oExecOut.raised /\ oExecOut.value.success

\* the dialects that have the ILIKE operator
IlikeDialects == {"postgresql"}

\* C28: the rewrite of  WHERE col = 'literal'  to  WHERE col ILIKE 'literal'
\* is applied only when the dialect of the target connection has ILIKE, and
\* the statement is left as extracted for any other dialect; rewriting the
\* rewritten statement again changes nothing.
C28_RewriteOnlyWhereSupported ==
    (qOut # NoResult /\ ~qOut.raised) =>
        /\ (qDialect \notin IlikeDialects
              => qOut.value.sql = ExtractStatement(Strip(qReply)))
        /\ FixCaseInsensitive(qOut.value.sql, 1) = qOut.value.sql

\* the entry points that write the audit log
LoggingEntries == {"execute", "generate_and_execute", "rerun"}

\* how many times name occurs in calls
Occurrences(calls, name) == Cardinality({i \in 1..Len(calls) : calls[i] = name})

\* C26: in execute, generate-and-execute and rerun the history write starts
\* only once the response has been determined and returned, and it is
\* attempted at most once per execution.
C26_HistoryWriteAfterResponse ==
    (oReq.entry \in LoggingEntries /\ "log_query_execution" \in Range(oCalls)) =>
        /\ "response" \in Range(oCalls)
        /\ CallIndex(oCalls, "response") < CallIndex(oCalls, "log_query_execution")
        /\ Occurrences(oCalls, "log_query_execution") = 1

\* the timeout the entry point is to pass: the request's timeout_seconds where
\* the request carries one (only /execute's can), else the configured one
ConfiguredTimeout ==
    IF oReq.entry = "execute" /\ oReq.timeout_seconds # 0
    THEN oReq.timeout_seconds
    ELSE oSettings.max_execution_time_seconds

\* C29: every entry point that invokes the executor passes the configured
\* max_rows_returned as the row cap and the configured
\* max_execution_time_seconds (or the request's timeout_seconds) as the timeout.
C29_ConfiguredLimitsPassed ==
    (Handled /\ oExecCall # NoResult) =>
        /\ oExecCall.max_rows = oSettings.max_rows_returned
        /\ oExecCall.timeout_seconds = ConfiguredTimeout

(***************************************************************************)
(* The snapshot store under concurrent discover/refresh requests.          *)
(*                                                                         *)
(* Inside one server process a request runs discover_and_save without      *)
(* yielding, but server processes that share the application database      *)
(* interleave between one's SELECT (lines 17-21) and its COMMIT (line 26). *)
(* The structure a request saves is named by the request's number.         *)
(***************************************************************************)
Processes == 1..NumProcesses

\* rows of schema_snapshots with this connection_id (no unique constraint:
\* the column is declared index=True, nullable=False)
RowsOf(rows, c) == {i \in 1..Len(rows) : rows[i].connection_id = c}

\* Query.one_or_none(): None, the row, or MultipleResultsFound
one_or_none(rows, c) ==
    IF RowsOf(rows, c) = {} THEN Returned(0)
    ELSE IF Cardinality(RowsOf(rows, c)) = 1
         THEN Returned(CHOOSE i \in RowsOf(rows, c) : TRUE)
         ELSE Raised("MultipleResultsFound")

StoreIdle ==
    /\ sRows = <<>>
    /\ sPc = [p \in Processes |-> "idle"]
    /\ sConn = [p \in Processes |-> 1]
    /\ sValue = [p \in Processes |-> 0]
    /\ sFound = [p \in Processes |-> 0]
    /\ sStarted = 0
    /\ sGet = NoResult
    /\ sLast = [c \in ConnectionIds |-> 0]
    /\ sFailed = NoResult

StoreInit == StoreIdle

\* discover_schema / refresh_schema up to line 15 of discover_and_save: the
\* connection string is resolved, the target introspected and the structure
\* normalized
StartDiscover(p, c) ==
    /\ sPc[p] = "idle"
    /\ sStarted < MaxDiscovers
    /\ sStarted' = sStarted + 1
    /\ sPc' = [sPc EXCEPT ![p] = "normalized"]
    /\ sConn' = [sConn EXCEPT ![p] = c]
    /\ sValue' = [sValue EXCEPT ![p] = sStarted + 1]
    /\ UNCHANGED <<sRows, sFound, sGet, sLast, sFailed>>
    /\ UNCHANGED <<guardVars, normVars, execVars, routeVars, genVars, histVars>>

\* where a discover/refresh request can raise before discover_and_save reads
\* the store: _resolve_connection_string (HTTPException 400),
\* _introspect_schema, _normalize_with_ai
FailureCauses == {"unresolved", "introspection", "normalization"}

\* the rows of schema_snapshots when the request raises there: the session
\* has been given nothing to write, and get_db_session closes it
RowsWhenFailed_SavedFirst(rows, c, cause) ==
    IF cause = "normalization"
    THEN Append(rows, [connection_id |-> c, schema_json |-> 0])
    ELSE rows
RowsWhenFailed(rows, c, cause) == rows

\* the same requests when one of these raises: the request ends before the
\* store is read
DiscoverFails(p, c) ==
    /\ sPc[p] = "idle"
    /\ sStarted < MaxDiscovers
    /\ sStarted' = sStarted + 1
    /\ \E cause \in FailureCauses :
          /\ sRows' = RowsWhenFailed(sRows, c, cause)
          /\ sFailed' = [connection_id |-> c, cause |-> cause,
                         stored |-> {sRows[i].connection_id : i \in 1..Len(sRows)}]
    /\ UNCHANGED <<sPc, sConn, sValue, sFound, sGet, sLast>>
    /\ UNCHANGED <<guardVars, normVars, execVars, routeVars, genVars, histVars>>

\* lines 17-21: session.query(SchemaSnapshot).filter(...).one_or_none();
\* MultipleResultsFound ends the request
QuerySnapshot(p) ==
    /\ sPc[p] = "normalized"
    /\ LET snapshot == one_or_none(sRows, sConn[p])
       IN  IF snapshot.raised
           THEN /\ sPc' = [sPc EXCEPT ![p] = "idle"]
                /\ UNCHANGED sFound
           ELSE /\ sPc' = [sPc EXCEPT ![p] = "queried"]
                /\ sFound' = [sFound EXCEPT ![p] = snapshot.value]
    /\ UNCHANGED <<sRows, sConn, sValue, sStarted, sGet, sLast, sFailed>>
    /\ UNCHANGED <<guardVars, normVars, execVars, routeVars, genVars, histVars>>

\* lines 22-28: a new row is added when the query found none, schema_json is
\* assigned, the session commits (INSERT or UPDATE) and the normalized
\* structure is returned
CommitSnapshot(p) ==
    /\ sPc[p] = "queried"
    /\ sRows' = IF sFound[p] = 0
                THEN Append(sRows, [connection_id |-> sConn[p], schema_json |-> sValue[p]])
                ELSE [sRows EXCEPT ![sFound[p]].schema_json = sValue[p]]
    /\ sPc' = [sPc EXCEPT ![p] = "idle"]
    /\ sLast' = [sLast EXCEPT ![sConn[p]] = sValue[p]]
    /\ UNCHANGED <<sConn, sValue, sFound, sStarted, sGet, sFailed>>
    /\ UNCHANGED <<guardVars, normVars, execVars, routeVars, genVars, histVars>>

\* GET /schema/{connection_id}: 404 without a row, else schema_json;
\* MultipleResultsFound is not caught
GetSchema(c) ==
    /\ LET snapshot == one_or_none(sRows, c)
       IN  sGet' = IF snapshot.raised THEN [connection_id |-> c, status |-> 500]
                   ELSE IF snapshot.value = 0 THEN [connection_id |-> c, status |-> 404]
                   ELSE [connection_id |-> c, status |-> 200,
                         body |-> sRows[snapshot.value].schema_json]
    /\ UNCHANGED <<sRows, sPc, sConn, sValue, sFound, sStarted, sLast, sFailed>>
    /\ UNCHANGED <<guardVars, normVars, execVars, routeVars, genVars, histVars>>

StoreNext ==
    \/ \E p \in Processes, c \in ConnectionIds : StartDiscover(p, c)
    \/ \E p \in Processes, c \in ConnectionIds : DiscoverFails(p, c)
    \/ \E p \in Processes : QuerySnapshot(p)
    \/ \E p \in Processes : CommitSnapshot(p)
    \/ \E c \in ConnectionIds : GetSchema(c)

\* C9: after any interleaving of discover/refresh requests the store holds at
\* most one snapshot row per connection id, so getSchema finds exactly one.
C9_OneSnapshotPerConnection ==
    /\ \A c \in ConnectionIds : Cardinality(RowsOf(sRows, c)) <= 1
    /\ (sGet # NoResult => sGet.status # 500)

\* C21: getSchema(c) answers with exactly what the most recent completed
\* discover/refresh for c returned, with 404 when none has completed, and so
\* never with the snapshot of another connection id.
C21_GetReturnsLatestDiscover ==
    [][\A c \in ConnectionIds :
          GetSchema(c) =>
              IF sLast[c] = 0
              THEN sGet'.status = 404
              ELSE sGet'.status = 200 /\ sGet'.body = sLast[c]]_vars

\* C30: a discover/refresh request that fails because the connection string
\* is unresolved, or introspection or normalization raises, leaves every row
\* of the snapshot store as it was.
C30_FailedDiscoverKeepsStore ==
    [][(\E p \in Processes, c \in ConnectionIds : DiscoverFails(p, c)) => sRows' = sRows]_vars

\* normalization raised for a request while the store held a snapshot of its
\* connection id and one of another id, and both rows are still there
C30_Witness ==
    /\ sFailed # NoResult
    /\ sFailed.cause = "normalization"
    /\ sFailed.stored = ConnectionIds
    /\ Len(sRows) = 2

(***************************************************************************)
(* The history routes on table query_history.  A row is its id, its pinned *)
(* flag and its created_at; the other columns play no part in a listing's  *)
(* order.  created_at is datetime.utcnow at the insert, so two rows can    *)
(* carry the same value.                                                   *)
(***************************************************************************)
\* the limit query parameter (limit: int = 50), a number of records.  A
\* negative value is handed to the database as it is and means what the
\* database makes of it; it is not a number of records and is left out.
Limits == 0..MaxLimit

\* INTEGER PRIMARY KEY: the largest id in the table plus one
NextId(rows) ==
    IF rows = <<>> THEN 1
    ELSE 1 + CHOOSE m \in {rows[i].id : i \in 1..Len(rows)} :
                 \A i \in 1..Len(rows) : rows[i].id <= m

\* a Boolean column as the database compares it
BoolRank(b) == IF b THEN 1 ELSE 0

\* mutant of SortsBefore: recency only
SortsBefore_RecencyOnly(a, b) == a.created_at >= b.created_at

\* a may precede b under ORDER BY pinned DESC, created_at DESC
SortsBefore(a, b) ==
    \/ BoolRank(a.pinned) > BoolRank(b.pinned)
    \/ BoolRank(a.pinned) = BoolRank(b.pinned) /\ a.created_at >= b.created_at

\* the orders in which the database may return the rows under that ORDER BY
\* (rows with equal keys in any order)
order_by(rows) ==
    {s \in [1..Len(rows) -> Range(rows)] :
        /\ Range(s) = Range(rows)
        /\ \A i, j \in 1..Len(s) : i < j => SortsBefore(s[i], s[j])}

\* LIMIT n on an ordered result: its first n rows, or all it has
limit_rows(s, n) ==
    SubSeq(s, 1, IF n < Len(s) THEN n ELSE Len(s))

HistIdle ==
    /\ hRows = <<>>
    /\ hNow = 1
    /\ hInserted = 0
    /\ hList = NoResult

HistInit ==
    /\ hRows = <<>>
    /\ hNow = 1
    /\ hInserted = 0
    /\ hList = NoResult

\* log_query_execution after an execution: one row is added, not pinned,
\* created at the current time
LogExecution ==
    /\ hInserted < MaxHistory
    /\ hInserted' = hInserted + 1
    /\ \E now \in hNow..MaxClock :
          /\ hNow' = now
          /\ hRows' = Append(hRows, [id |-> NextId(hRows), pinned |-> FALSE,
                                     created_at |-> now])
    /\ UNCHANGED hList
    /\ UNCHANGED <<guardVars, normVars, execVars, routeVars, storeVars, genVars>>

\* POST /history/{history_id}/pin?pinned=...: pin or unpin an existing row
\* (404 and no change without one)
PinHistory(history_id, pinned) ==
    /\ \E i \in 1..Len(hRows) : hRows[i].id = history_id
    /\ hRows' = [i \in 1..Len(hRows) |->
                    IF hRows[i].id = history_id
                    THEN [hRows[i] EXCEPT !.pinned = pinned]
                    ELSE hRows[i]]
    /\ UNCHANGED <<hNow, hInserted, hList>>
    /\ UNCHANGED <<guardVars, normVars, execVars, routeVars, storeVars, genVars>>

\* DELETE /history/{history_id} of an existing row
DeleteHistory(history_id) ==
    /\ \E i \in 1..Len(hRows) : hRows[i].id = history_id
    /\ hRows' = SelectSeq(hRows, LAMBDA r : r.id # history_id)
    /\ UNCHANGED <<hNow, hInserted, hList>>
    /\ UNCHANGED <<guardVars, normVars, execVars, routeVars, storeVars, genVars>>

\* GET /history/?limit=...
ListHistory(limit) ==
    /\ \E s \in order_by(hRows) :
          hList' = [limit |-> limit, items |-> limit_rows(s, limit)]
    /\ UNCHANGED <<hRows, hNow, hInserted>>
    /\ UNCHANGED <<guardVars, normVars, execVars, routeVars, storeVars, genVars>>

HistNext ==
    \/ LogExecution
    \/ \E id \in 1..MaxHistory, pinned \in BOOLEAN : PinHistory(id, pinned)
    \/ \E id \in 1..MaxHistory : DeleteHistory(id)
    \/ \E limit \in Limits : ListHistory(limit)

\* the items of the last listing
Listed == hList.items

InitGuard == GuardInit /\ NormIdle /\ ExecIdle /\ RouteIdle /\ StoreIdle /\ GenIdle /\ HistIdle
InitNorm == NormInit /\ GuardIdle /\ ExecIdle /\ RouteIdle /\ StoreIdle /\ GenIdle /\ HistIdle
InitExec == ExecInit /\ GuardIdle /\ NormIdle /\ RouteIdle /\ StoreIdle /\ GenIdle /\ HistIdle
Init == RouteInit /\ GuardIdle /\ NormIdle /\ ExecIdle /\ StoreIdle /\ GenIdle /\ HistIdle
InitStore == StoreInit /\ GuardIdle /\ NormIdle /\ ExecIdle /\ RouteIdle /\ GenIdle /\ HistIdle
InitGen == GenInit /\ GuardIdle /\ NormIdle /\ ExecIdle /\ RouteIdle /\ StoreIdle /\ HistIdle
InitHist == HistInit /\ GuardIdle /\ NormIdle /\ ExecIdle /\ RouteIdle /\ StoreIdle /\ GenIdle

\* validate_sql on every statement text of at most MaxSqlLen lexemes
SpecGuard == InitGuard /\ [][ValidateSql]_vars

\* discover_and_save on every raw structure and every reply within the bounds
SpecNorm == InitNorm /\ [][DiscoverAndSave]_vars

\* execute_sql with every argument and every behaviour of the target database
SpecExec == InitExec /\ [][ExecuteSql]_vars

\* one request to one of the routes (rerun included) and the background tasks
\* it queues, with every setting and every behaviour of the model, of the
\* target database and of the history write
Next == RouteNext

Spec == Init /\ [][Next]_vars

\* generate_sql on every reply built from at most MaxReplyChunks chunks, and on
\* a model call that raises
SpecGen == InitGen /\ [][GenerateSql]_vars

\* discover/refresh and getSchema requests served by NumProcesses server
\* processes over one application database
SpecStore == InitStore /\ [][StoreNext]_vars

\* history writes, pins, unpins, deletes and listings on one application
\* database
SpecHist == InitHist /\ [][HistNext]_vars

====
